---- MODULE Spec2Model ----
(***************************************************************************)
(* Stock availability of saleor/warehouse/availability.py.                 *)
(*                                                                         *)
(* The database tables the module reads (Stock, Allocation, Reservation)   *)
(* are the state; every public function of the module is an action that    *)
(* draws its arguments from small sets, runs the function on the tables    *)
(* and records the call and its outcome in `ret`.  The Django aggregates   *)
(* are computed over the rows the query produces: SUM(DISTINCT quantity)   *)
(* is a sum over the set of quantity values of the joined rows.            *)
(***************************************************************************)
EXTENDS Integers, Sequences, FiniteSets

(* stocks, allocations, reservations: the rows of the three tables;        *)
(* track_inventory: ProductVariant.track_inventory by variant pk;          *)
(* ret: the call made and what it returned or raised;                      *)
(* pc, request, seen: per checkout session, its step, the line it asks     *)
(* for and the available quantity its check computed.                      *)
VARIABLES stocks, allocations, reservations, track_inventory, ret, pc, request, seen

vars == <<stocks, allocations, reservations, track_inventory, ret, pc, request, seen>>

(* ---------------------------- bounds ----------------------------------- *)
MaxStocks == 2
MaxBulkStocks == 1
MaxQty == 2
MaxAllocs == 1
MaxReservations == 1
MaxLines == 2
MaxExisting == 1

(* ---------------------------- domains ---------------------------------- *)
Variants == {1, 2}
Products == {1, 2}
CheckoutLines == {1, 2}
Sessions == {1, 2}
now == 1
Quantities == 0..MaxQty

Max(a, b) == IF a >= b THEN a ELSE b

(* Variant.product: both variants belong to product 1, product 2 has none *)
ProductOf(variant) == 1

(* ---------------------------- aggregates ------------------------------- *)
RECURSIVE SumSet(_)
SumSet(S) == IF S = {} THEN 0
             ELSE LET x == CHOOSE y \in S : TRUE IN x + SumSet(S \ {x})

(* stocks LEFT JOIN allocations: one row per (stock, allocation) pair and  *)
(* one row with a NULL allocation for a stock that has none.  A NULL       *)
(* quantity_allocated adds nothing to SUM, it is kept as 0 with            *)
(* allocation id 0.                                                        *)
JoinAllocations(stks) ==
    {[stock_id |-> s.id, quantity |-> s.quantity, allocation_id |-> a.id,
      quantity_allocated |-> a.quantity_allocated] :
        <<s, a>> \in {p \in stks \X allocations : p[2].stock = p[1].id}}
    \cup
    {[stock_id |-> s.id, quantity |-> s.quantity, allocation_id |-> 0,
      quantity_allocated |-> 0] :
        s \in {t \in stks : \A a \in allocations : a.stock # t.id}}

(* Coalesce(Sum("quantity", distinct=True), 0): SUM(DISTINCT quantity)     *)
SumDistinctQuantity(stks) ==
    SumSet({row.quantity : row \in JoinAllocations(stks)})

RECURSIVE SumAllocatedRows(_)
SumAllocatedRows(rows) ==
    IF rows = {} THEN 0
    ELSE LET r == CHOOSE x \in rows : TRUE
         IN r.quantity_allocated + SumAllocatedRows(rows \ {r})

(* Coalesce(Sum("allocations__quantity_allocated"), 0)                     *)
SumQuantityAllocated(stks) == SumAllocatedRows(JoinAllocations(stks))

RECURSIVE SumAvailableRows(_)
SumAvailableRows(rows) ==
    IF rows = {} THEN 0
    ELSE LET r == CHOOSE x \in rows : TRUE
         IN r.available_quantity + SumAvailableRows(rows \ {r})

RECURSIVE SumReservedRows(_)
SumReservedRows(rows) ==
    IF rows = {} THEN 0
    ELSE LET r == CHOOSE x \in rows : TRUE
         IN r.quantity_reserved + SumReservedRows(rows \ {r})

(* ------------------- managers and querysets (models.py) ---------------- *)
(* The tables hold the rows of the country and channel of the call.        *)
for_country_and_channel == stocks

get_variant_stocks_for_country(variant) ==
    {s \in for_country_and_channel : s.product_variant_id = variant}

get_product_stocks_for_country_and_channel(product) ==
    {s \in for_country_and_channel : ProductOf(s.product_variant_id) = product}

(* available_quantity = quantity - Coalesce(Sum(allocations), 0), per row  *)
annotate_available_quantity(stks) ==
    {[id |-> s.id, product_variant_id |-> s.product_variant_id,
      quantity |-> s.quantity,
      available_quantity |-> s.quantity - SumQuantityAllocated({s})] :
        s \in stks}

not_expired(rsv) == {r \in rsv : r.reserved_until > now}

exclude_checkout_lines(rsv, lines) ==
    IF lines = {} THEN rsv ELSE {r \in rsv : r.checkout_line \notin lines}

(* ------------------- exceptions (core/exceptions.py) ------------------- *)
InsufficientStockData(variant, available_quantity) ==
    [variant |-> variant, available_quantity |-> available_quantity]

(* InsufficientStockData(variant=variant): no available quantity is given  *)
InsufficientStockDataOf(variant) == InsufficientStockData(variant, 0)

Returned == [raised |-> "None", data |-> <<>>]
InsufficientStock(data) == [raised |-> "InsufficientStock", data |-> data]
NameError == [raised |-> "NameError", data |-> <<>>]

(* ------------------- availability.py ----------------------------------- *)
(* as get_reserved_quantity, were no checkout line excluded *)
get_reserved_quantity_of_every_line(stks, lines) ==
    SumReservedRows(
        not_expired({r \in reservations : r.stock \in {s.id : s \in stks}}))

get_reserved_quantity(stks, lines) ==
    SumReservedRows(
        exclude_checkout_lines(
            not_expired({r \in reservations : r.stock \in {s.id : s \in stks}}),
            lines))

(* as _get_available_quantity, were the allocated quantity not subtracted *)
_get_available_quantity_of_on_hand(stks, checkout_lines, check_reservations) ==
    LET total_quantity == SumDistinctQuantity(stks)
        quantity_reserved ==
            IF check_reservations
            THEN get_reserved_quantity(stks, checkout_lines)
            ELSE 0
    IN Max(total_quantity - quantity_reserved, 0)

_get_available_quantity(stks, checkout_lines, check_reservations) ==
    LET total_quantity == SumDistinctQuantity(stks)
        quantity_allocated == SumQuantityAllocated(stks)
        quantity_reserved ==
            IF check_reservations
            THEN get_reserved_quantity(stks, checkout_lines)
            ELSE 0
    IN Max(total_quantity - quantity_allocated - quantity_reserved, 0)

(* as check_stock_quantity, were the test for no stocks left out *)
check_stock_quantity_untested(variant, quantity, checkout_lines, check_reservations) ==
    IF track_inventory[variant]
    THEN LET stks == get_variant_stocks_for_country(variant)
             available_quantity ==
                 _get_available_quantity(stks, checkout_lines,
                                         check_reservations)
         IN IF quantity > available_quantity
            THEN InsufficientStock(<<InsufficientStockDataOf(variant)>>)
            ELSE Returned
    ELSE Returned

check_stock_quantity(variant, quantity, checkout_lines, check_reservations) ==
    IF track_inventory[variant]
    THEN LET stks == get_variant_stocks_for_country(variant)
         IN IF stks = {}
            THEN InsufficientStock(<<InsufficientStockDataOf(variant)>>)
            ELSE LET available_quantity ==
                         _get_available_quantity(stks, checkout_lines,
                                                 check_reservations)
                 IN IF quantity > available_quantity
                    THEN InsufficientStock(<<InsufficientStockDataOf(variant)>>)
                    ELSE Returned
    ELSE Returned

get_available_quantity(variant, current_checkout_lines, check_reservations) ==
    LET stks == get_variant_stocks_for_country(variant)
    IN IF stks = {}
       THEN 0
       ELSE _get_available_quantity(stks, current_checkout_lines,
                                    check_reservations)

(* any(...) over the available quantities: a non-zero number is true       *)
is_product_in_stock(product) ==
    LET stks == annotate_available_quantity(
                    get_product_stocks_for_country_and_channel(product))
    IN \E row \in stks : row.available_quantity # 0

(* The name current_checkout_lines is bound nowhere in the module: once   *)
(* the stocks are not empty, building the argument of                      *)
(* exclude_checkout_lines raises NameError and the rest never runs.        *)
get_reserved_quantity_bulk(stks, lines) ==
    IF stks = {}
    THEN [raised |-> "None", reservations |-> [v \in {} |-> 0]]
    ELSE [raised |-> "NameError", reservations |-> [v \in {} |-> 0]]

(* defaultdict(int) lookup and dict.get(key, 0)                            *)
GetOrZero(dict, key) == IF key \in DOMAIN dict THEN dict[key] ELSE 0

Range(seq) == {seq[i] : i \in 1..Len(seq)}

Min(a, b) == IF a <= b THEN a ELSE b

(* {line.variant.pk: line.line.quantity for line in existing_lines}: a     *)
(* later line of the same variant overwrites an earlier one.               *)
VariantsQuantities(existing_lines) ==
    [v \in {existing_lines[i].variant : i \in 1..Len(existing_lines)} |->
        LET last == CHOOSE i \in 1..Len(existing_lines) :
                        /\ existing_lines[i].variant = v
                        /\ \A j \in 1..Len(existing_lines) :
                              existing_lines[j].variant = v => j <= i
        IN existing_lines[last].line.quantity]

(* as BulkLine, were the existing quantity added whatever replace says *)
BulkLine_adding(variant, requested, all_variants_stocks, variant_reservations, variants_quantities, replace) ==
    LET quantity == requested + GetOrZero(variants_quantities, variant)
        stks == {s \in all_variants_stocks : s.product_variant_id = variant}
        available_quantity ==
            Max(SumAvailableRows(stks)
                    - GetOrZero(variant_reservations, variant), 0)
    IN [variant |-> variant,
        quantity |-> quantity,
        available_quantity |-> available_quantity,
        insufficient |->
            IF stks = {} THEN TRUE
            ELSE IF track_inventory[variant]
                 THEN quantity > available_quantity
                 ELSE FALSE]

(* One iteration of the loop over zip(variants, quantities): the locals    *)
(* quantity and available_quantity and whether the line is appended.       *)
BulkLine(variant, requested, all_variants_stocks, variant_reservations, variants_quantities, replace) ==
    LET quantity == IF ~replace
                    THEN requested + GetOrZero(variants_quantities, variant)
                    ELSE requested
        stks == {s \in all_variants_stocks : s.product_variant_id = variant}
        available_quantity ==
            Max(SumAvailableRows(stks)
                    - GetOrZero(variant_reservations, variant), 0)
    IN [variant |-> variant,
        quantity |-> quantity,
        available_quantity |-> available_quantity,
        insufficient |->
            IF stks = {} THEN TRUE
            ELSE IF track_inventory[variant]
                 THEN quantity > available_quantity
                 ELSE FALSE]

RECURSIVE CollectInsufficient(_)
CollectInsufficient(lines) ==
    IF lines = <<>> THEN <<>>
    ELSE (IF Head(lines).insufficient
          THEN <<InsufficientStockData(Head(lines).variant,
                                       Head(lines).available_quantity)>>
          ELSE <<>>) \o CollectInsufficient(Tail(lines))

(* additional_filter_lookup is None.  The result carries the exception     *)
(* raised (or "None") with its data, and the locals of every iteration.    *)
check_stock_quantity_bulk(variants, quantities, existing_lines, replace, check_reservations) ==
    LET all_variants_stocks ==
            annotate_available_quantity(
                {s \in for_country_and_channel :
                    s.product_variant_id \in Range(variants)})
        reserved ==
            IF check_reservations
            THEN get_reserved_quantity_bulk(all_variants_stocks, existing_lines)
            ELSE [raised |-> "None", reservations |-> [v \in {} |-> 0]]
        variants_quantities == VariantsQuantities(existing_lines)
        lines == [i \in 1..Min(Len(variants), Len(quantities)) |->
                     BulkLine(variants[i], quantities[i], all_variants_stocks,
                              reserved.reservations, variants_quantities,
                              replace)]
        insufficient_stocks == CollectInsufficient(lines)
    IN IF reserved.raised # "None"
       THEN [raised |-> reserved.raised, data |-> <<>>, lines |-> <<>>]
       ELSE IF insufficient_stocks # <<>>
            THEN [raised |-> "InsufficientStock", data |-> insufficient_stocks,
                  lines |-> lines]
            ELSE [raised |-> "None", data |-> <<>>, lines |-> lines]

(* ------------------------- the tables ---------------------------------- *)
(* Rows are numbered 1..k.  No function reads the order of the primary    *)
(* keys, so the rows of a table are listed in one fixed order (Sorted).    *)
Sorted(ranks) == \A i, j \in DOMAIN ranks : i <= j => ranks[i] <= ranks[j]

StockRank(t) == t[1] * (MaxQty + 1) + t[2]
AllocationRank(t) == t[1] * (MaxQty + 1) + t[2]
ReservationRank(t) == ((t[1] * (MaxQty + 1) + t[2]) * 3 + t[3]) * 3 + t[4]

StockTables(n) ==
    UNION {{{[id |-> i, product_variant_id |-> f[i][1], quantity |-> f[i][2]] :
                i \in 1..k} :
            f \in {g \in [1..k -> Variants \X Quantities] :
                      Sorted([i \in 1..k |-> StockRank(g[i])])}} :
           k \in 0..n}

AllocationTables(stks, n) ==
    UNION {{{[id |-> i, stock |-> f[i][1], quantity_allocated |-> f[i][2]] :
                i \in 1..k} :
            f \in {g \in [1..k -> {s.id : s \in stks} \X (1..MaxQty)] :
                      Sorted([i \in 1..k |-> AllocationRank(g[i])])}} :
           k \in 0..n}

ReservationTables(stks, n) ==
    UNION {{{[id |-> i, stock |-> f[i][1], quantity_reserved |-> f[i][2],
              checkout_line |-> f[i][3], reserved_until |-> f[i][4]] :
                i \in 1..k} :
            f \in {g \in [1..k -> {s.id : s \in stks} \X (1..MaxQty)
                                   \X CheckoutLines \X {now, now + 1}] :
                      Sorted([i \in 1..k |-> ReservationRank(g[i])])}} :
           k \in 0..n}

NoCall == [op |-> "none"]

InitTables(ns, na, nr, flags) ==
    /\ stocks \in StockTables(ns)
    /\ allocations \in AllocationTables(stocks, na)
    /\ reservations \in ReservationTables(stocks, nr)
    /\ track_inventory \in [Variants -> flags]
    /\ ret = NoCall

NoSessions ==
    /\ pc = [s \in Sessions |-> "idle"]
    /\ request = [s \in Sessions |-> [variant |-> 1, quantity |-> 0]]
    /\ seen = [s \in Sessions |-> 0]

tables == <<stocks, allocations, reservations, track_inventory>>
sessions == <<pc, request, seen>>

(* ------------------------- single-item calls --------------------------- *)
(* The functions keep nothing between calls: a behaviour is one call on    *)
(* one content of the tables.                                              *)
Init ==
    /\ InitTables(MaxStocks, MaxAllocs, 0, BOOLEAN)
    /\ NoSessions

CheckStockQuantity ==
    /\ ret = NoCall
    /\ \E variant \in Variants, quantity \in Quantities,
       checkout_lines \in SUBSET CheckoutLines, check_reservations \in BOOLEAN :
        /\ ret' = [op |-> "check_stock_quantity", variant |-> variant,
                   quantity |-> quantity, checkout_lines |-> checkout_lines,
                   check_reservations |-> check_reservations,
                   result |-> check_stock_quantity(variant, quantity,
                                  checkout_lines, check_reservations)]
        /\ UNCHANGED <<tables, sessions>>

GetAvailableQuantity ==
    /\ ret = NoCall
    /\ \E variant \in Variants, current_checkout_lines \in SUBSET CheckoutLines,
       check_reservations \in BOOLEAN :
        /\ ret' = [op |-> "get_available_quantity", variant |-> variant,
                   checkout_lines |-> current_checkout_lines,
                   check_reservations |-> check_reservations,
                   result |-> get_available_quantity(variant,
                                  current_checkout_lines, check_reservations)]
        /\ UNCHANGED <<tables, sessions>>

IsProductInStock ==
    /\ ret = NoCall
    /\ \E product \in Products :
        /\ ret' = [op |-> "is_product_in_stock", product |-> product,
                   result |-> is_product_in_stock(product)]
        /\ UNCHANGED <<tables, sessions>>

Next == CheckStockQuantity \/ GetAvailableQuantity \/ IsProductInStock

Spec == Init /\ [][Next]_vars

(* ------------------------- reservations -------------------------------- *)
InitReserved ==
    /\ InitTables(MaxStocks, 0, MaxReservations, {TRUE})
    /\ NoSessions

NextReserved == GetAvailableQuantity

SpecReserved == InitReserved /\ [][NextReserved]_vars

(* ------------------------- bulk calls ---------------------------------- *)
SeqsUpTo(S, n) == UNION {[1..k -> S] : k \in 0..n}

(* CheckoutLineInfo: the checkout line (id, quantity) and its variant; a   *)
(* checkout holds one line per variant.                                    *)
CheckoutLineInfos ==
    [line : [id : CheckoutLines, quantity : 1..MaxQty], variant : Variants]

ExistingLines ==
    {e \in SeqsUpTo(CheckoutLineInfos, MaxExisting) :
        \A i, j \in 1..Len(e) :
            i # j => /\ e[i].line.id # e[j].line.id
                     /\ e[i].variant # e[j].variant}

InitBulk ==
    /\ InitTables(MaxBulkStocks, MaxAllocs, MaxReservations, BOOLEAN)
    /\ NoSessions

CheckStockQuantityBulk ==
    /\ ret = NoCall
    /\ \E lines \in SeqsUpTo(Variants \X Quantities, MaxLines),
          existing_lines \in ExistingLines,
          replace \in BOOLEAN, check_reservations \in BOOLEAN :
        LET variants == [i \in 1..Len(lines) |-> lines[i][1]]
            quantities == [i \in 1..Len(lines) |-> lines[i][2]]
        IN /\ ret' = [op |-> "check_stock_quantity_bulk",
                      variants |-> variants, quantities |-> quantities,
                      existing_lines |-> existing_lines, replace |-> replace,
                      check_reservations |-> check_reservations,
                      result |-> check_stock_quantity_bulk(variants,
                                     quantities, existing_lines, replace,
                                     check_reservations)]
           /\ UNCHANGED <<tables, sessions>>

NextBulk == CheckStockQuantityBulk

SpecBulk == InitBulk /\ [][NextBulk]_vars

(* ------------------------- two checkout sessions ----------------------- *)
(* Each session checks its line with check_stock_quantity and then hands   *)
(* the line to the allocation writer.  The writer is outside this module;  *)
(* it is taken here as a plain insert of an Allocation row on a stock of   *)
(* the variant, with no quantity constraint of its own.                    *)
InitRace ==
    /\ InitTables(MaxStocks, MaxAllocs, 0, {TRUE})
    /\ pc = [s \in Sessions |-> "start"]
    /\ request \in [Sessions -> [variant : Variants, quantity : 1..MaxQty]]
    /\ seen = [s \in Sessions |-> 0]

Check(s) ==
    /\ pc[s] = "start"
    /\ LET result == check_stock_quantity(request[s].variant,
                                          request[s].quantity, {}, FALSE)
       IN pc' = [pc EXCEPT ![s] = IF result.raised = "None"
                                  THEN "checked" ELSE "failed"]
    /\ seen' = [seen EXCEPT ![s] =
                    get_available_quantity(request[s].variant, {}, FALSE)]
    /\ UNCHANGED <<tables, ret, request>>

Commit(s) ==
    /\ pc[s] = "checked"
    /\ \E stock \in get_variant_stocks_for_country(request[s].variant) :
          allocations' = allocations \cup
              {[id |-> Cardinality(allocations) + 1, stock |-> stock.id,
                quantity_allocated |-> request[s].quantity]}
    /\ pc' = [pc EXCEPT ![s] = "committed"]
    /\ UNCHANGED <<stocks, reservations, track_inventory, ret, request, seen>>

NextRace == \E s \in Sessions : Check(s) \/ Commit(s)

SpecRace == InitRace /\ [][NextRace]_vars

(* ------------------------- quantities the claims speak of -------------- *)
RECURSIVE SumFn(_)
SumFn(f) ==
    IF DOMAIN f = {} THEN 0
    ELSE LET x == CHOOSE y \in DOMAIN f : TRUE
         IN f[x] + SumFn([y \in DOMAIN f \ {x} |-> f[y]])

StocksOf(variant) == {s \in stocks : s.product_variant_id = variant}

(* on-hand quantity of a set of stock records, each record counted once *)
OnHand(stks) ==
    SumFn([i \in {s.id : s \in stks} |->
              (CHOOSE s \in stks : s.id = i).quantity])

(* allocated quantity of a set of stock records *)
Allocated(stks) ==
    SumFn([i \in {a.id : a \in {b \in allocations :
                                   b.stock \in {s.id : s \in stks}}} |->
              (CHOOSE a \in allocations : a.id = i).quantity_allocated])

(* active reservations on the stock records, but for the lines excluded *)
Reserved(stks, excluded) ==
    SumFn([i \in {r.id : r \in {q \in reservations :
                                   /\ q.stock \in {s.id : s \in stks}
                                   /\ q.reserved_until > now
                                   /\ q.checkout_line \notin excluded}} |->
              (CHOOSE r \in reservations : r.id = i).quantity_reserved])

AvailableToPromise(stks, check_reservations, excluded) ==
    Max(OnHand(stks) - Allocated(stks)
            - (IF check_reservations THEN Reserved(stks, excluded) ELSE 0), 0)

(* C1: on a non-empty collection of stock records the availability is      *)
(* max(onHand - allocated - reserved, 0), onHand summed over the distinct  *)
(* records (equal quantities of different records both count), reserved 0  *)
(* when reservations are not checked; it is never negative.                *)
C1_AvailableSumsEveryRecord ==
    (ret.op = "get_available_quantity" /\ StocksOf(ret.variant) # {}) =>
        /\ ret.result >= 0
        /\ ret.result = AvailableToPromise(StocksOf(ret.variant),
                            ret.check_reservations, ret.checkout_lines)

C4_InStockIffOnHandAboveAllocated ==
    ret.op = "is_product_in_stock" =>
        (ret.result <=>
            \E s \in stocks :
                /\ ProductOf(s.product_variant_id) = ret.product
                /\ s.quantity > Allocated({s}))

(* C10: without reservations the single-item check of a tracked item       *)
(* raises InsufficientStock exactly when the bulk check of that one line,  *)
(* with replace and no existing lines, raises it.                          *)
C10_SingleAgreesWithBulk ==
    (/\ ret.op = "check_stock_quantity"
     /\ track_inventory[ret.variant]
     /\ ~ret.check_reservations) =>
        ((ret.result.raised = "InsufficientStock") <=>
         (check_stock_quantity_bulk(<<ret.variant>>, <<ret.quantity>>, <<>>,
                                    TRUE, FALSE).raised = "InsufficientStock"))

(* C5: with reservations checked, get_available_quantity leaves out the    *)
(* active reservations of the checkout lines it is given and subtracts     *)
(* every other active reservation on the stock records of the variant,     *)
(* also one held by another line for the same item.                        *)
C5_ExclusionIsByCheckoutLine ==
    (/\ ret.op = "get_available_quantity"
     /\ ret.check_reservations
     /\ StocksOf(ret.variant) # {}) =>
        ret.result =
            Max(SumDistinctQuantity(StocksOf(ret.variant))
                    - SumQuantityAllocated(StocksOf(ret.variant))
                    - Reserved(StocksOf(ret.variant), ret.checkout_lines), 0)

C5_Witness ==
    /\ ret.op = "get_available_quantity"
    /\ ret.check_reservations
    /\ ret.checkout_lines = {1}
    /\ \E r \in reservations :
          /\ r.stock \in {s.id : s \in StocksOf(ret.variant)}
          /\ r.reserved_until > now
          /\ r.checkout_line = 2
          /\ ret.result = SumDistinctQuantity(StocksOf(ret.variant))
                              - r.quantity_reserved
          /\ ret.result > 0

(* the quantity the existing lines already hold of a variant *)
ExistingQuantity(existing_lines, variant) ==
    SumFn([i \in {j \in 1..Len(existing_lines) :
                     existing_lines[j].variant = variant} |->
              existing_lines[i].line.quantity])

ExistingLineIds(existing_lines) ==
    {existing_lines[i].line.id : i \in 1..Len(existing_lines)}

(* what the bulk call of ret is to compare for its i-th line *)
EffectiveQuantity(i) ==
    IF ret.replace
    THEN ret.quantities[i]
    ELSE ret.quantities[i] + ExistingQuantity(ret.existing_lines, ret.variants[i])

BulkAvailable(i) ==
    AvailableToPromise(StocksOf(ret.variants[i]), ret.check_reservations,
                       ExistingLineIds(ret.existing_lines))

LineInsufficient(i) ==
    \/ StocksOf(ret.variants[i]) = {}
    \/ /\ track_inventory[ret.variants[i]]
       /\ EffectiveQuantity(i) > BulkAvailable(i)

RECURSIVE InsufficientFrom(_)
InsufficientFrom(i) ==
    IF i > Len(ret.variants) THEN <<>>
    ELSE (IF LineInsufficient(i)
          THEN <<[variant |-> ret.variants[i],
                  available_quantity |-> BulkAvailable(i)]>>
          ELSE <<>>) \o InsufficientFrom(i + 1)

(* C2: with reservations checked the bulk check subtracts, for each line,  *)
(* only the active reservations of lines other than the existing lines,    *)
(* and it ends by returning or by raising InsufficientStock.               *)
C2_BulkLeavesOutOwnReservations ==
    (ret.op = "check_stock_quantity_bulk" /\ ret.check_reservations) =>
        /\ ret.result.raised \in {"None", "InsufficientStock"}
        /\ Len(ret.result.lines) = Len(ret.variants)
        /\ \A i \in 1..Len(ret.result.lines) :
              ret.result.lines[i].available_quantity = BulkAvailable(i)

(* C6: the quantity a line of the bulk check compares with the available   *)
(* quantity is its requested quantity, plus what the existing lines hold   *)
(* of the same item unless replace is set.                                 *)
C6_EffectiveQuantity ==
    ret.op = "check_stock_quantity_bulk" =>
        /\ ret.result.raised # "NameError" =>
              Len(ret.result.lines) = Len(ret.variants)
        /\ \A i \in 1..Len(ret.result.lines) :
              /\ ret.result.lines[i].quantity = EffectiveQuantity(i)
              /\ (/\ StocksOf(ret.variants[i]) # {}
                  /\ track_inventory[ret.variants[i]]) =>
                    (ret.result.lines[i].insufficient <=>
                        EffectiveQuantity(i)
                            > ret.result.lines[i].available_quantity)

C6_Witness ==
    /\ ret.op = "check_stock_quantity_bulk"
    /\ ~ret.replace
    /\ \E i \in 1..Len(ret.result.lines) :
          /\ track_inventory[ret.variants[i]]
          /\ StocksOf(ret.variants[i]) # {}
          /\ ExistingQuantity(ret.existing_lines, ret.variants[i]) > 0
          /\ ret.quantities[i] <= ret.result.lines[i].available_quantity
          /\ ret.result.lines[i].insufficient

(* C7: in the bulk check an untracked item without stock records is        *)
(* reported with available quantity 0, an untracked item with a stock      *)
(* record is never reported.                                               *)
C7_UntrackedNeedsOnlyStock ==
    ret.op = "check_stock_quantity_bulk" =>
        \A i \in 1..Len(ret.variants) :
            ~track_inventory[ret.variants[i]] =>
                IF StocksOf(ret.variants[i]) = {}
                THEN /\ ret.result.raised = "InsufficientStock"
                     /\ \E k \in 1..Len(ret.result.data) :
                           ret.result.data[k] =
                               [variant |-> ret.variants[i],
                                available_quantity |-> 0]
                ELSE \A k \in 1..Len(ret.result.data) :
                        ret.result.data[k].variant # ret.variants[i]

(* C8: the bulk check raises InsufficientStock exactly when some line is   *)
(* insufficient, with one record per insufficient line in the order of     *)
(* the lines.                                                              *)
C8_CollectsEveryInsufficientLine ==
    ret.op = "check_stock_quantity_bulk" =>
        /\ (ret.result.raised = "InsufficientStock") <=>
              (\E i \in 1..Len(ret.variants) : LineInsufficient(i))
        /\ ret.result.data = InsufficientFrom(1)

(* C9: a check changes no table, and it lets a session pass only with a    *)
(* quantity that the tables hold at that moment.                           *)
C9_CheckReadsASnapshot ==
    [][\A s \in Sessions :
          (pc[s] = "start" /\ pc'[s] # "start") =>
              /\ UNCHANGED tables
              /\ pc'[s] = "checked" =>
                    request[s].quantity
                        <= AvailableToPromise(StocksOf(request[s].variant),
                                              FALSE, {})]_vars

(* both sessions passed on the same available quantity, together they      *)
(* asked for more, and after both commits the stock is oversold            *)
C9_Witness ==
    /\ \A s \in Sessions : pc[s] = "committed"
    /\ request[1].variant = request[2].variant
    /\ seen[1] = seen[2]
    /\ request[1].quantity + request[2].quantity > seen[1]
    /\ Allocated(StocksOf(request[1].variant))
           > OnHand(StocksOf(request[1].variant))

====
